---- MODULE Spec2Model ----
(***************************************************************************)
(* EGX stock screener (src/App.tsx, first App component, lines 1-494;      *)
(* src/services/geminiService.ts; src/unnamed/part_000 = supabaseClient).  *)
(*                                                                         *)
(* The model is at the granularity of React event handlers and promise     *)
(* continuations: a handler runs to its first await (or to its end) in one *)
(* step, the re-render that follows its setState calls is part of the same *)
(* step, and each continuation after an await is a step of its own.        *)
(* "Retry Application" (window.location.reload) ends the session and is    *)
(* not a step of it.                                                       *)
(***************************************************************************)
EXTENDS Integers, Sequences, FiniteSets, Bags, TLC

VARIABLES
    mounted,              \* the two mount effects have run
    data,                 \* ScreeningResult | null      (App.tsx:40)
    loading,              \* boolean                     (App.tsx:41)
    error,                \* string | null               (App.tsx:42)
    selectedIndex,        \* string                      (App.tsx:43)
    showOnlyUndervalued,  \* boolean                     (App.tsx:44)
    showWatchlistOnly,    \* boolean                     (App.tsx:45)
    watchlist,            \* string[]                    (App.tsx:46)
    sortConfig,           \* {key, direction} | null     (App.tsx:47)
    criteria,             \* ScreeningCriteria           (App.tsx:49)
    calls,                \* provider calls (screenStocks) awaiting their result
    response,             \* the provider's answer to the call resolved last, null if none
    supabase,             \* TRUE iff the exported client is non-null
    remote,               \* rows of the store's watchlist table
    wlLoad,               \* the initial select of fetchWatchlist
    toggles,              \* bag of toggleWatchlist invocations awaiting the store
    lastAlert             \* text of the last window.alert, null if none

fetchVars == <<data, loading, error, calls, response>>
viewVars  == <<showOnlyUndervalued, showWatchlistOnly, sortConfig, criteria>>
storeVars == <<supabase, remote, wlLoad, toggles, lastAlert, watchlist>>
vars == <<mounted, selectedIndex, fetchVars, viewVars, storeVars>>

(***************************************************************************)
(* null / undefined and optional values: <<>> is absent, <<x>> is x.       *)
(***************************************************************************)
Null == <<>>
Some(x) == <<x>>
\* a JSON null in a numeric field: not undefined, falsy, and converted to 0 by
\* the relational and arithmetic operators (ToNumber(null) = +0)
JsNull == <<0, 0>>

\* JavaScript truthiness of an optional number / string
TruthyNum(o) == o # Null /\ o[1] # 0
TruthyStr(o) == o # Null /\ o[1] # ""

\* a >= n, a <= n for a possibly undefined a: comparisons with undefined are false
GE(a, n) == a # Null /\ a[1] >= n
LE(a, n) == a # Null /\ a[1] <= n

Range(s) == {s[i] : i \in DOMAIN s}

RECURSIVE SelectSeqIdx(_, _, _)
\* the elements of s, in order, whose index is in keep (from position i on)
SelectSeqIdx(s, keep, i) ==
    IF i > Len(s) THEN <<>>
    ELSE (IF i \in keep THEN <<s[i]>> ELSE <<>>) \o SelectSeqIdx(s, keep, i + 1)

(***************************************************************************)
(* Bounds of the model.                                                    *)
(***************************************************************************)
\* provider calls the model lets be outstanding at once (the code has no cap)
MaxCalls == 2
\* toggleWatchlist invocations the model lets be in flight at once
MaxToggles == 2
\* longest stock list given to the filter evaluator
MaxStocks == 2
\* longest stock list given to the sort engine
MaxSorted == 3
\* longest list of grounding chunks attached to an answer
MaxChunks == 2

EGX_INDICES == {"EGX30", "EGX70", "EGX100", "EGX33"}

(***************************************************************************)
(* Records.  Numeric fields are optional values: the provider's JSON may   *)
(* leave any of them out.                                                  *)
(***************************************************************************)
RawStock(sym, price, c6m, c1m, c1w, pe, fv) ==
    [symbol |-> sym, name |-> sym, currentPrice |-> price,
     change6m |-> c6m, change1m |-> c1m, change1w |-> c1w,
     peRatio |-> pe, fairValue |-> fv]

COMI == RawStock("COMI", Some(50), Some(20), Some(-8), Some(1), Some(7), Some(60))
SWDY == RawStock("SWDY", Some(40), Some(30), Some(6), Some(-2), Null, Some(30))
ABUK == RawStock("ABUK", Some(10), Some(5), Some(3), Some(1), Some(0), Some(0))

\* further records for the filter and sort engines: ORAS sits on the default
\* bounds (change6m = max, fairValue = currentPrice), HRHO lacks optional and
\* required numbers
ORAS == RawStock("ORAS", Some(20), Some(150), Some(2), Some(20), Some(3), Some(20))
HRHO == RawStock("HRHO", Some(30), Null, Some(7), Some(-10), Null, Null)

\* records whose payload carries null where a number is expected: EFID has no
\* price, JUFO no 1-week change
EFID == RawStock("EFID", JsNull, Some(20), Some(6), Some(1), Null, Some(60))
JUFO == RawStock("JUFO", Some(15), Some(20), Some(6), JsNull, Null, Some(10))

\* groundingChunks entries
Chunk(web) == [web |-> web]
Web(title, uri) == Some([title |-> title, uri |-> uri])

\* the answers with stocks the provider may give: a stock list and the
\* groundingChunks attached to it (undefined, or a list of chunks)
Payloads ==
    {[stocks |-> <<COMI, SWDY>>, chunks |-> Null],
     [stocks |-> <<SWDY, ABUK>>,
      chunks |-> Some(<<Chunk(Web(Some("EGX"), Null)), Chunk(Null)>>)]}

\* what generateContent + JSON.parse give screenStocks: a thrown error, or the
\* parsed object and the grounding chunks
RawThrow(msg) == [kind |-> "throw", message |-> msg]
RawOk(stocks, analysis, chunks) ==
    [kind |-> "ok", stocks |-> stocks, analysis |-> analysis,
     groundingChunks |-> chunks]

\* the provider's possible answers to a query for index; the narrative is
\* about the queried index and is identified with it
RawResponses(index) ==
    {RawThrow("Service unavailable"), RawThrow("")}
    \cup {RawOk(Null, index, Null), RawOk(Some(<<>>), index, Null)}
    \cup {RawOk(Some(p.stocks), index, p.chunks) : p \in Payloads}

(***************************************************************************)
(* screenStocks (geminiService.ts:7-82), from the provider's answer on.    *)
(***************************************************************************)
MarketSource == "Market Source"
NoUri == "#"

\* mutant of Sources: the entries come out last first
Sources_reversed(chunks) ==
    IF chunks = Null THEN <<>>
    ELSE [i \in DOMAIN chunks[1] |->
            LET web == chunks[1][Len(chunks[1]) + 1 - i].web IN
            [title |-> IF web # Null /\ TruthyStr(web[1].title)
                       THEN web[1].title[1] ELSE MarketSource,
             uri   |-> IF web # Null /\ TruthyStr(web[1].uri)
                       THEN web[1].uri[1] ELSE NoUri]]

\* geminiService.ts:64-67
Sources(chunks) ==
    IF chunks = Null THEN <<>>
    ELSE [i \in DOMAIN chunks[1] |->
            LET web == chunks[1][i].web IN
            [title |-> IF web # Null /\ TruthyStr(web[1].title)
                       THEN web[1].title[1] ELSE MarketSource,
             uri   |-> IF web # Null /\ TruthyStr(web[1].uri)
                       THEN web[1].uri[1] ELSE NoUri]]

\* geminiService.ts:71-74; the receipt time is not modelled, only the stamping
Stamp(s) == [f \in (DOMAIN s) \cup {"lastUpdated"} |->
                IF f = "lastUpdated" THEN "receipt" ELSE s[f]]

TypeErrorMap == "Cannot read properties of undefined (reading 'map')"

\* [ok |-> TRUE, result |-> ScreeningResult] or [ok |-> FALSE, message |-> thrown]
screenStocks(raw) ==
    IF raw.kind = "throw" THEN [ok |-> FALSE, message |-> raw.message]
    ELSE IF raw.stocks = Null THEN [ok |-> FALSE, message |-> TypeErrorMap]
    ELSE [ok |-> TRUE,
          result |-> [matchingStocks |-> <<>>,
                      allStocks |-> [i \in DOMAIN raw.stocks[1] |-> Stamp(raw.stocks[1][i])],
                      analysis |-> raw.analysis,
                      sources |-> Sources(raw.groundingChunks)]]

(***************************************************************************)
(* Filter evaluator (App.tsx:142-161).                                     *)
(***************************************************************************)
\* App.tsx:146
meets6m(stock, c) ==
    ~c.enabled6m \/ (GE(stock.change6m, c.min6mChange) /\ LE(stock.change6m, c.max6mChange))

\* App.tsx:147
meets1w(stock, c) ==
    ~c.enabled1w \/ (GE(stock.change1w, c.min1wChange) /\ LE(stock.change1w, c.max1wChange))

\* mutant of meets1m: the absolute mode asks for the window [min, max]
meets1m_window(stock, c) ==
    IF c.enabled1m
    THEN IF c.useAbsolute1m
         THEN GE(stock.change1m, c.min1mChange) /\ LE(stock.change1m, c.max1mChange)
         ELSE GE(stock.change1m, c.min1mChange)
    ELSE TRUE

\* App.tsx:148-155
meets1m(stock, c) ==
    IF c.enabled1m
    THEN IF c.useAbsolute1m
         THEN GE(stock.change1m, c.min1mChange) \/ LE(stock.change1m, c.max1mChange)
         ELSE GE(stock.change1m, c.min1mChange)
    ELSE TRUE

\* a > b on two possibly undefined numbers
GT(a, b) == a # Null /\ b # Null /\ a[1] > b[1]

\* mutant of meetsUndervalued: a fair value equal to the price is enough
meetsUndervalued_atLeast(stock, undervaluedOnly) ==
    ~undervaluedOnly \/ (TruthyNum(stock.fairValue)
                          /\ ~GT(stock.currentPrice, stock.fairValue))

\* App.tsx:157
meetsUndervalued(stock, undervaluedOnly) ==
    ~undervaluedOnly \/ (TruthyNum(stock.fairValue) /\ GT(stock.fairValue, stock.currentPrice))

\* mutant of meetsWatchlist: the mirror is not consulted
meetsWatchlist_all(stock, watchlistOnly, wl) == TRUE

\* App.tsx:158
meetsWatchlist(stock, watchlistOnly, wl) ==
    ~watchlistOnly \/ stock.symbol \in Range(wl)

\* mutant of Keep: the 1-week window is left out
Keep_noWeek(stock, c, undervaluedOnly, watchlistOnly, wl) ==
    /\ meets6m(stock, c)
    /\ meets1m(stock, c)
    /\ meetsUndervalued(stock, undervaluedOnly)
    /\ meetsWatchlist(stock, watchlistOnly, wl)

\* App.tsx:160, the filter callback
Keep(stock, c, undervaluedOnly, watchlistOnly, wl) ==
    /\ meets6m(stock, c)
    /\ meets1m(stock, c)
    /\ meets1w(stock, c)
    /\ meetsUndervalued(stock, undervaluedOnly)
    /\ meetsWatchlist(stock, watchlistOnly, wl)

\* mutant of FilterStocks: the kept records come out last first
FilterStocks_reversed(allStocks, c, undervaluedOnly, watchlistOnly, wl) ==
    LET kept == SelectSeqIdx(allStocks,
                             {i \in DOMAIN allStocks :
                                Keep(allStocks[i], c, undervaluedOnly, watchlistOnly, wl)},
                             1)
    IN  [i \in 1..Len(kept) |-> kept[Len(kept) + 1 - i]]

\* App.tsx:145-161: Array.prototype.filter over allStocks
FilterStocks(allStocks, c, undervaluedOnly, watchlistOnly, wl) ==
    SelectSeqIdx(allStocks,
                 {i \in DOMAIN allStocks :
                    Keep(allStocks[i], c, undervaluedOnly, watchlistOnly, wl)},
                 1)

(***************************************************************************)
(* Sort engine (App.tsx:134-140 and 163-180).  Sort values are tagged:     *)
(* a rational n/d with d > 0, -Infinity, +Infinity or NaN.                 *)
(***************************************************************************)
SortKeys == {"symbol", "currentPrice", "peRatio", "upside"}

\* JavaScript's order on the symbols in use, as positions in this list
SymbolOrder == <<"ABUK", "COMI", "HRHO", "ORAS", "SWDY">>
SymbolRank(sym) == CHOOSE i \in DOMAIN SymbolOrder : SymbolOrder[i] = sym

NumV(n, d) == [k |-> "num", n |-> n, d |-> d]
NegInf == [k |-> "ninf", n |-> 0, d |-> 1]
PosInf == [k |-> "pinf", n |-> 0, d |-> 1]
NaN == [k |-> "nan", n |-> 0, d |-> 1]

\* mutant of Quotient: the gap is taken relative to the fair value
Quotient_ofFairValue(fv, price) ==
    IF price = Null THEN NaN
    ELSE IF fv > 0 THEN NumV(fv - price[1], fv)
    ELSE NumV(price[1] - fv, 0 - fv)

\* (fairValue - currentPrice) / currentPrice in floating point
Quotient(fv, price) ==
    IF price = Null THEN NaN
    ELSE IF price[1] = 0 THEN (IF fv > 0 THEN PosInf ELSE NegInf)
    ELSE IF price[1] > 0 THEN NumV(fv - price[1], price[1])
    ELSE NumV(price[1] - fv, 0 - price[1])

\* mutant of SortValue: an absent field sorts below every number
SortValue_absentLow(stock, key) ==
    IF key = "upside"
    THEN IF TruthyNum(stock.fairValue)
         THEN Quotient(stock.fairValue[1], stock.currentPrice)
         ELSE NegInf
    ELSE IF key = "symbol" THEN NumV(SymbolRank(stock.symbol), 1)
    ELSE IF stock[key] = Null THEN NegInf
    ELSE NumV(stock[key][1], 1)

\* mutant of SortValue: a record without fair value gets upside 0
SortValue_zero(stock, key) ==
    IF key = "upside"
    THEN IF TruthyNum(stock.fairValue)
         THEN Quotient(stock.fairValue[1], stock.currentPrice)
         ELSE NumV(0, 1)
    ELSE IF key = "symbol" THEN NumV(SymbolRank(stock.symbol), 1)
    ELSE IF stock[key] = Null THEN NumV(0, 1)
    ELSE NumV(stock[key][1], 1)

\* App.tsx:168-174
SortValue(stock, key) ==
    IF key = "upside"
    THEN IF TruthyNum(stock.fairValue)
         THEN Quotient(stock.fairValue[1], stock.currentPrice)
         ELSE NegInf
    ELSE IF key = "symbol" THEN NumV(SymbolRank(stock.symbol), 1)
    ELSE IF stock[key] = Null THEN NumV(0, 1)
    ELSE NumV(stock[key][1], 1)

\* a < b on sort values
Less(a, b) ==
    CASE a.k = "nan" \/ b.k = "nan" -> FALSE
      [] a.k = "ninf" -> b.k # "ninf"
      [] a.k = "pinf" -> FALSE
      [] b.k = "ninf" -> FALSE
      [] b.k = "pinf" -> TRUE
      [] OTHER -> a.n * b.d < b.n * a.d

\* App.tsx:176-178, the comparator's result
Compare(a, b, cfg) ==
    LET aValue == SortValue(a, cfg.key)
        bValue == SortValue(b, cfg.key)
    IN  IF Less(aValue, bValue) THEN (IF cfg.direction = "asc" THEN -1 ELSE 1)
        ELSE IF Less(bValue, aValue) THEN (IF cfg.direction = "asc" THEN 1 ELSE -1)
        ELSE 0

RECURSIVE Insert_unstable(_, _, _)
\* mutant of Insert: x is put before the elements it ties with
Insert_unstable(s, x, cfg) ==
    IF s = <<>> THEN <<x>>
    ELSE IF Compare(s[Len(s)], x, cfg) >= 0
         THEN Append(Insert_unstable(SubSeq(s, 1, Len(s) - 1), x, cfg), s[Len(s)])
         ELSE Append(s, x)

RECURSIVE Insert(_, _, _)
\* x put into the sorted sequence s behind every element it does not precede
Insert(s, x, cfg) ==
    IF s = <<>> THEN <<x>>
    ELSE IF Compare(s[Len(s)], x, cfg) > 0
         THEN Append(Insert(SubSeq(s, 1, Len(s) - 1), x, cfg), s[Len(s)])
         ELSE Append(s, x)

RECURSIVE SortBy(_, _)
\* Array.prototype.sort (stable) with the comparator of App.tsx:164-179
SortBy(s, cfg) ==
    IF s = <<>> THEN <<>>
    ELSE Insert(SortBy(SubSeq(s, 1, Len(s) - 1), cfg), s[Len(s)], cfg)

\* App.tsx:142-183
filteredStocks ==
    IF data = Null THEN <<>>
    ELSE LET result == FilterStocks(data[1].allStocks, criteria,
                                    showOnlyUndervalued, showWatchlistOnly, watchlist)
         IN  IF sortConfig # Null THEN SortBy(result, sortConfig[1]) ELSE result

(***************************************************************************)
(* The store client (src/unnamed/part_000, ./lib/supabaseClient) and the   *)
(* store's watchlist table, whose primary key is symbol.                   *)
(***************************************************************************)
\* part_000:6-18: TRUE iff the exported client is non-null
supabaseClient(supabaseUrl, supabaseAnonKey, created) ==
    /\ TruthyStr(supabaseUrl)
    /\ TruthyStr(supabaseAnonKey)
    /\ supabaseUrl[1] # "undefined"
    /\ supabaseAnonKey[1] # "undefined"
    /\ created

\* values of SUPABASE_URL / SUPABASE_ANON_KEY in the environment
EnvValues == {Null, Some(""), Some("undefined"), Some("set")}

\* App.tsx:98-102
Row(stock) ==
    [symbol |-> stock.symbol, name |-> stock.name, price_at_save |-> stock.currentPrice]

\* rows the table may hold when the session starts
InitialRows == {Row(COMI), Row(SWDY)}

Symbols(rows) == {r.symbol : r \in rows}

\* the sequences that list every element of the finite set S once
Orders(S) ==
    {q \in [1..Cardinality(S) -> S] : \A x \in S : \E i \in DOMAIN q : q[i] = x}

(***************************************************************************)
(* Watchlist synchronizer (App.tsx:62-110).                                *)
(***************************************************************************)
NotConfigured == "Supabase is not configured. Watchlist is unavailable."
FailedToUpdate ==
    "Failed to update watchlist. Ensure the 'watchlist' table exists in your Supabase project."

\* App.tsx:63-68, up to the await
fetchWatchlist ==
    IF ~supabase
    THEN UNCHANGED wlLoad
    ELSE wlLoad' = [st |-> "sent", savedStocks |-> <<>>]

\* the store answers select('symbol'): the rows in some order, or an error
StoreSelect ==
    /\ wlLoad.st = "sent"
    /\ \/ \E q \in Orders(Symbols(remote)) :
            wlLoad' = [st |-> "ok", savedStocks |-> [i \in DOMAIN q |-> [symbol |-> q[i]]]]
       \/ wlLoad' = [st |-> "error", savedStocks |-> <<>>]
    /\ UNCHANGED <<mounted, selectedIndex, fetchVars, viewVars,
                   supabase, remote, toggles, lastAlert, watchlist>>

\* App.tsx:70-76, from the await on
fetchWatchlistResume ==
    /\ IF wlLoad.st = "ok"
       THEN watchlist' = [i \in DOMAIN wlLoad.savedStocks |-> wlLoad.savedStocks[i].symbol]
       ELSE UNCHANGED watchlist
    /\ wlLoad' = [st |-> "done", savedStocks |-> <<>>]

WatchlistLoaded ==
    /\ wlLoad.st \in {"ok", "error"}
    /\ fetchWatchlistResume
    /\ UNCHANGED <<mounted, selectedIndex, fetchVars, viewVars,
                   supabase, remote, toggles, lastAlert>>

\* an invocation of toggleWatchlist waiting at its await
Toggle(stock, isSaved, st) ==
    [symbol |-> stock.symbol, name |-> stock.name, currentPrice |-> stock.currentPrice,
     isSaved |-> isSaved, st |-> st]

AddToBag(B, e) == B (+) SetToBag({e})
RemoveFromBag(B, e) == B (-) SetToBag({e})

\* mutant of toggleWatchlist: the mirror is updated before the store answers
toggleWatchlist_optimistic(stock) ==
    LET isSaved == stock.symbol \in Range(watchlist)
    IN  /\ supabase
        /\ toggles' = AddToBag(toggles, Toggle(stock, isSaved, "sent"))
        /\ watchlist' = IF isSaved
                         THEN SelectSeq(watchlist, LAMBDA s : s # stock.symbol)
                         ELSE Append(watchlist, stock.symbol)
        /\ UNCHANGED lastAlert

\* mutant of toggleWatchlist: no check of the client
toggleWatchlist_noNullCheck(stock) ==
    LET isSaved == stock.symbol \in Range(watchlist)
    IN  /\ toggles' = AddToBag(toggles, Toggle(stock, isSaved, "sent"))
        /\ UNCHANGED <<lastAlert, watchlist>>

\* App.tsx:81-103, up to the await
toggleWatchlist(stock) ==
    IF ~supabase
    THEN /\ lastAlert' = Some(NotConfigured)
         /\ UNCHANGED <<toggles, watchlist>>
    ELSE LET isSaved == stock.symbol \in Range(watchlist)
         IN  /\ toggles' = AddToBag(toggles, Toggle(stock, isSaved, "sent"))
             /\ UNCHANGED <<lastAlert, watchlist>>

\* the store executes the delete (isSaved) or the insert of t; an insert of a
\* symbol already in the table is rejected (primary key)
StoreWrite(t) ==
    /\ BagIn(t, toggles)
    /\ t.st = "sent"
    /\ \/ /\ t.isSaved
          /\ remote' = {r \in remote : r.symbol # t.symbol}
          /\ toggles' = AddToBag(RemoveFromBag(toggles, t), [t EXCEPT !.st = "ok"])
       \/ /\ ~t.isSaved
          /\ t.symbol \notin Symbols(remote)
          /\ remote' = remote \cup {Row(t)}
          /\ toggles' = AddToBag(RemoveFromBag(toggles, t), [t EXCEPT !.st = "ok"])
       \/ /\ remote' = remote
          /\ toggles' = AddToBag(RemoveFromBag(toggles, t), [t EXCEPT !.st = "error"])
    /\ UNCHANGED <<mounted, selectedIndex, fetchVars, viewVars,
                   supabase, wlLoad, lastAlert, watchlist>>

\* mutant of toggleWatchlistResume: an add writes the mirror anew
toggleWatchlistResume_overwrites(t) ==
    /\ toggles' = RemoveFromBag(toggles, t)
    /\ IF t.st = "error"
       THEN /\ lastAlert' = Some(FailedToUpdate)
            /\ UNCHANGED watchlist
       ELSE /\ watchlist' = IF t.isSaved
                            THEN SelectSeq(watchlist, LAMBDA s : s # t.symbol)
                            ELSE <<t.symbol>>
            /\ UNCHANGED lastAlert

\* mutant of toggleWatchlistResume: the store's error is not looked at
toggleWatchlistResume_ignoreError(t) ==
    /\ toggles' = RemoveFromBag(toggles, t)
    /\ watchlist' = IF t.isSaved
                     THEN SelectSeq(watchlist, LAMBDA s : s # t.symbol)
                     ELSE Append(watchlist, t.symbol)
    /\ UNCHANGED lastAlert

\* App.tsx:93-94, 103-109, from the await on
toggleWatchlistResume(t) ==
    /\ toggles' = RemoveFromBag(toggles, t)
    /\ IF t.st = "error"
       THEN /\ lastAlert' = Some(FailedToUpdate)
            /\ UNCHANGED watchlist
       ELSE /\ watchlist' = IF t.isSaved
                            THEN SelectSeq(watchlist, LAMBDA s : s # t.symbol)
                            ELSE Append(watchlist, t.symbol)
            /\ UNCHANGED lastAlert

\* mutant of ToggleDone: a failed toggle is surfaced through the error state
ToggleDone_surfacesError(t) ==
    /\ BagIn(t, toggles)
    /\ t.st \in {"ok", "error"}
    /\ toggleWatchlistResume(t)
    /\ error' = IF t.st = "error" THEN Some(<<FailedToUpdate>>) ELSE error
    /\ UNCHANGED <<mounted, selectedIndex, data, loading, calls, response, viewVars,
                   supabase, remote, wlLoad>>

ToggleDone(t) ==
    /\ BagIn(t, toggles)
    /\ t.st \in {"ok", "error"}
    /\ toggleWatchlistResume(t)
    /\ UNCHANGED <<mounted, selectedIndex, fetchVars, viewVars, supabase, remote, wlLoad>>

\* the stocks whose star button is on screen: the rows of the table
\* (App.tsx:335-383) and the entries of the sidebar (App.tsx:436-455)
StarButtons ==
    (IF ~loading /\ error = Null THEN Range(filteredStocks) ELSE {})
    \cup (IF Len(watchlist) > 0 /\ data # Null
          THEN {s \in Range(data[1].allStocks) : s.symbol \in Range(watchlist)}
          ELSE {})

\* a click on a star button (App.tsx:379, 450)
ClickStar(stock) ==
    /\ mounted
    /\ stock \in StarButtons
    /\ BagCardinality(toggles) < MaxToggles
    /\ toggleWatchlist(stock)
    /\ UNCHANGED <<mounted, selectedIndex, fetchVars, viewVars, supabase, remote, wlLoad>>

(***************************************************************************)
(* Fetch orchestration (App.tsx:112-132).                                  *)
(***************************************************************************)
\* error texts are sequences of string pieces (TLA+ has no concatenation)
NoStockData == "No stock data returned from the analysis."
FailedToFetch(index) ==
    <<"Failed to fetch ", index, " data. Please ensure your API_KEY is set in Vercel.">>

\* mutant of fetchStocks: no single-flight guard
fetchStocks_noGuard(indexToFetch) ==
    /\ loading' = TRUE
    /\ error' = Null
    /\ calls' = Append(calls, indexToFetch)
    /\ UNCHANGED <<data, response>>

\* mutant of fetchStocks: a request made while loading replaces the call in flight
fetchStocks_cancel(indexToFetch) ==
    /\ loading' = TRUE
    /\ error' = Null
    /\ calls' = <<indexToFetch>>
    /\ UNCHANGED <<data, response>>

\* mutant of fetchStocks: the call is issued without setting loading
fetchStocks_noLoading(indexToFetch) ==
    IF loading
    THEN UNCHANGED fetchVars
    ELSE /\ error' = Null
         /\ calls' = Append(calls, indexToFetch)
         /\ UNCHANGED <<data, response, loading>>

\* mutant of fetchStocks: the error of the previous fetch is kept
fetchStocks_keepsError(indexToFetch) ==
    IF loading
    THEN UNCHANGED fetchVars
    ELSE /\ loading' = TRUE
         /\ calls' = Append(calls, indexToFetch)
         /\ UNCHANGED <<data, response, error>>

\* App.tsx:112-117, up to the await
fetchStocks(indexToFetch) ==
    IF loading
    THEN UNCHANGED fetchVars
    ELSE /\ loading' = TRUE
         /\ error' = Null
         /\ calls' = Append(calls, indexToFetch)
         /\ UNCHANGED <<data, response>>

\* mutant of fetchStocksResume: a failure clears the held result
fetchStocksResume_dropsData(k, raw) ==
    LET r == screenStocks(raw)
        ok == r.ok /\ Len(r.result.allStocks) > 0
    IN  /\ calls' = SelectSeqIdx(calls, DOMAIN calls \ {k}, 1)
        /\ response' = Some(raw)
        /\ data' = IF ok THEN Some(r.result) ELSE Null
        /\ error' = IF ok THEN error ELSE Some(<<NoStockData>>)
        /\ loading' = FALSE

\* mutant of fetchStocksResume: the result is stored without the check of 118-120
fetchStocksResume_noValidation(k, raw) ==
    LET r == screenStocks(raw)
    IN  /\ calls' = SelectSeqIdx(calls, DOMAIN calls \ {k}, 1)
        /\ response' = Some(raw)
        /\ data' = IF r.ok THEN Some(r.result) ELSE data
        /\ error' = IF r.ok THEN error ELSE Some(<<r.message>>)
        /\ loading' = FALSE

\* mutant of fetchStocksResume: a failed call is issued again
fetchStocksResume_retries(k, raw) ==
    LET r == screenStocks(raw)
        ok == r.ok /\ Len(r.result.allStocks) > 0
        thrown == IF ~r.ok THEN r.message ELSE NoStockData
        rest == SelectSeqIdx(calls, DOMAIN calls \ {k}, 1)
    IN  /\ calls' = IF ok THEN rest ELSE Append(rest, calls[k])
        /\ response' = Some(raw)
        /\ data' = IF ok THEN Some(r.result) ELSE data
        /\ error' = IF ok THEN error
                    ELSE Some(IF thrown # "" THEN <<thrown>> ELSE FailedToFetch(calls[k]))
        /\ loading' = ~ok

\* mutant of fetchStocksResume: a new stock list is appended to the held one
fetchStocksResume_merge(k, raw) ==
    LET r == screenStocks(raw)
        ok == r.ok /\ Len(r.result.allStocks) > 0
        thrown == IF ~r.ok THEN r.message ELSE NoStockData
    IN  /\ calls' = SelectSeqIdx(calls, DOMAIN calls \ {k}, 1)
        /\ response' = Some(raw)
        /\ data' = IF ~ok THEN data
                   ELSE IF data = Null THEN Some(r.result)
                   ELSE Some([r.result EXCEPT
                                !.allStocks = data[1].allStocks \o r.result.allStocks])
        /\ error' = IF ok THEN error
                    ELSE Some(IF thrown # "" THEN <<thrown>> ELSE FailedToFetch(calls[k]))
        /\ loading' = FALSE

\* mutant of fetchStocksResume: loading is reset on success only (no finally)
fetchStocksResume_noFinally(k, raw) ==
    LET r == screenStocks(raw)
        ok == r.ok /\ Len(r.result.allStocks) > 0
        thrown == IF ~r.ok THEN r.message ELSE NoStockData
    IN  /\ calls' = SelectSeqIdx(calls, DOMAIN calls \ {k}, 1)
        /\ response' = Some(raw)
        /\ data' = IF ok THEN Some(r.result) ELSE data
        /\ error' = IF ok THEN error
                    ELSE Some(IF thrown # "" THEN <<thrown>> ELSE FailedToFetch(calls[k]))
        /\ loading' = IF ok THEN FALSE ELSE loading

\* App.tsx:117-127, from the await on, for the call at position k answered by raw
fetchStocksResume(k, raw) ==
    LET r == screenStocks(raw)
        indexToFetch == calls[k]
        empty == r.ok /\ Len(r.result.allStocks) = 0
        thrown == IF ~r.ok THEN r.message ELSE NoStockData
    IN  /\ calls' = SelectSeqIdx(calls, DOMAIN calls \ {k}, 1)
        /\ response' = Some(raw)
        /\ IF r.ok /\ ~empty
           THEN /\ data' = Some(r.result)
                /\ UNCHANGED error
           ELSE /\ error' = Some(IF thrown # "" THEN <<thrown>>
                                 ELSE FailedToFetch(indexToFetch))
                /\ UNCHANGED data
        /\ loading' = FALSE

\* the mount effects (App.tsx:62-79 and 130-132)
Mount ==
    /\ ~mounted
    /\ mounted' = TRUE
    /\ fetchWatchlist
    /\ fetchStocks(selectedIndex)
    /\ UNCHANGED <<selectedIndex, viewVars, supabase, remote, toggles, lastAlert, watchlist>>

\* the Refresh button (App.tsx:230-232), disabled while loading
Refresh ==
    /\ mounted
    /\ ~loading
    /\ Len(calls) < MaxCalls
    /\ fetchStocks(selectedIndex)
    /\ UNCHANGED <<mounted, selectedIndex, viewVars, storeVars>>

\* the index select (App.tsx:218-221) and the effect it triggers (130-132)
ChangeIndex(index) ==
    /\ mounted
    /\ index # selectedIndex
    /\ Len(calls) < MaxCalls
    /\ selectedIndex' = index
    /\ fetchStocks(index)
    /\ UNCHANGED <<mounted, viewVars, storeVars>>

\* a provider call resolves and its fetchStocks resumes
ProviderResponds ==
    \E k \in DOMAIN calls : \E raw \in RawResponses(calls[k]) :
        /\ fetchStocksResume(k, raw)
        /\ UNCHANGED <<mounted, selectedIndex, viewVars, storeVars>>

DefaultCriteria ==
    [min6mChange |-> 10, max6mChange |-> 150, enabled6m |-> TRUE,
     min1mChange |-> 5, max1mChange |-> -5, enabled1m |-> TRUE,
     min1wChange |-> -10, max1wChange |-> 10, enabled1w |-> FALSE,
     useAbsolute1m |-> TRUE]

Init ==
    /\ mounted = FALSE
    /\ data = Null
    /\ loading = FALSE
    /\ error = Null
    /\ selectedIndex = "EGX33"
    /\ showOnlyUndervalued = FALSE
    /\ showWatchlistOnly = FALSE
    /\ watchlist = <<>>
    /\ sortConfig = Null
    /\ criteria = DefaultCriteria
    /\ calls = <<>>
    /\ \E url \in EnvValues, key \in EnvValues, created \in BOOLEAN :
           supabase = supabaseClient(url, key, created)
    /\ remote \in (IF supabase THEN SUBSET InitialRows ELSE {{}})
    /\ wlLoad = [st |-> "none", savedStocks |-> <<>>]
    /\ toggles = EmptyBag
    /\ lastAlert = Null
    /\ response = Null

(***************************************************************************)
(* The view controls (App.tsx:134-140, 270, 281, 298-316).                 *)
(***************************************************************************)
\* positions of the two range inputs (min=-100 max=300) the model uses
Min6mValues == {10, 25}
Max6mValues == {15, 150}

\* mutant of handleSort: a third request for the same key removes the sort
handleSort_cycles(key) ==
    IF sortConfig # Null /\ sortConfig[1].key = key /\ sortConfig[1].direction = "asc"
    THEN sortConfig' = Null
    ELSE LET direction ==
                 IF sortConfig # Null /\ sortConfig[1].key = key
                    /\ sortConfig[1].direction = "desc"
                 THEN "asc" ELSE "desc"
         IN  sortConfig' = Some([key |-> key, direction |-> direction])

\* mutant of handleSort: the direction flips whatever key was sorted before
handleSort_anyKey(key) ==
    LET direction ==
            IF sortConfig # Null /\ sortConfig[1].direction = "desc"
            THEN "asc" ELSE "desc"
    IN  sortConfig' = Some([key |-> key, direction |-> direction])

\* App.tsx:134-140
handleSort(key) ==
    LET direction ==
            IF sortConfig # Null /\ sortConfig[1].key = key
               /\ sortConfig[1].direction = "desc"
            THEN "asc" ELSE "desc"
    IN  sortConfig' = Some([key |-> key, direction |-> direction])

ViewFrame == UNCHANGED <<mounted, selectedIndex, fetchVars, storeVars>>

\* App.tsx:270
ToggleWatchlistOnly ==
    /\ mounted
    /\ showWatchlistOnly' = ~showWatchlistOnly
    /\ UNCHANGED <<showOnlyUndervalued, sortConfig, criteria>>
    /\ ViewFrame

\* App.tsx:281
ToggleUndervalued ==
    /\ mounted
    /\ showOnlyUndervalued' = ~showOnlyUndervalued
    /\ UNCHANGED <<showWatchlistOnly, sortConfig, criteria>>
    /\ ViewFrame

\* App.tsx:298
ToggleEnabled6m ==
    /\ mounted
    /\ criteria' = [criteria EXCEPT !.enabled6m = ~criteria.enabled6m]
    /\ UNCHANGED <<showOnlyUndervalued, showWatchlistOnly, sortConfig>>
    /\ ViewFrame

\* App.tsx:303-307, the input is disabled while the window is disabled
SetMin6m(v) ==
    /\ mounted
    /\ criteria.enabled6m
    /\ v # criteria.min6mChange
    /\ criteria' = [criteria EXCEPT !.min6mChange = v]
    /\ UNCHANGED <<showOnlyUndervalued, showWatchlistOnly, sortConfig>>
    /\ ViewFrame

\* App.tsx:313-317
SetMax6m(v) ==
    /\ mounted
    /\ criteria.enabled6m
    /\ v # criteria.max6mChange
    /\ criteria' = [criteria EXCEPT !.max6mChange = v]
    /\ UNCHANGED <<showOnlyUndervalued, showWatchlistOnly, sortConfig>>
    /\ ViewFrame

\* a click on a column header (App.tsx:354-364), shown with the table
ClickHeader(key) ==
    /\ mounted
    /\ ~loading /\ error = Null /\ Len(filteredStocks) > 0
    /\ handleSort(key)
    /\ UNCHANGED <<showOnlyUndervalued, showWatchlistOnly, criteria>>
    /\ ViewFrame

NextFetch ==
    \/ Mount
    \/ Refresh
    \/ \E index \in EGX_INDICES : ChangeIndex(index)
    \/ ProviderResponds

SpecFetch == Init /\ [][NextFetch]_vars

(***************************************************************************)
(* screenStocks on answers with grounding chunks of every shape: no web    *)
(* object, or a web object whose title and uri are absent, empty or set.   *)
(***************************************************************************)
WebTitles == {Null, Some(""), Some("EGX")}
WebUris == {Null, Some("https://egx.example")}
Chunks == {Chunk(Null)} \cup {Chunk(Web(t, u)) : t \in WebTitles, u \in WebUris}
ChunkLists == UNION {[1..n -> Chunks] : n \in 0..MaxChunks}

\* answers with one stock and any chunk list, or no groundingChunks at all
GroundedResponses(index) ==
    {RawOk(Some(<<COMI>>), index, c) : c \in {Null} \cup {Some(l) : l \in ChunkLists}}

\* a provider call resolves with a grounded answer and its fetchStocks resumes
ProviderRespondsGrounded ==
    \E k \in DOMAIN calls : \E raw \in GroundedResponses(calls[k]) :
        /\ fetchStocksResume(k, raw)
        /\ UNCHANGED <<mounted, selectedIndex, viewVars, storeVars>>

NextSources ==
    \/ Mount
    \/ Refresh
    \/ ProviderRespondsGrounded

SpecSources == Init /\ [][NextSources]_vars

\* the toggles in flight, as a set
InFlight == BagToSet(toggles)

NextWatchlist ==
    \/ Mount
    \/ ProviderResponds
    \/ StoreSelect
    \/ WatchlistLoaded
    \/ \E stock \in StarButtons : ClickStar(stock)
    \/ \E t \in InFlight : StoreWrite(t)
    \/ \E t \in InFlight : ToggleDone(t)

SpecWatchlist == Init /\ [][NextWatchlist]_vars

(***************************************************************************)
(* The filter evaluator on its own: a held result, criteria and membership *)
(* drawn from bounded sets, then the view controls.                        *)
(***************************************************************************)
\* an answer of the provider that screenStocks turns into result, when the
\* answer carried no grounding chunks
Answered(result) ==
    RawOk(Some([i \in DOMAIN result.allStocks |->
                  [f \in DOMAIN result.allStocks[i] \ {"lastUpdated"} |->
                      result.allStocks[i][f]]]),
          result.analysis, Null)

ViewStocks == {Stamp(s) : s \in {COMI, SWDY, ABUK, ORAS, HRHO}}

StockLists == UNION {[1..n -> ViewStocks] : n \in 1..MaxStocks}

InitFilter ==
    /\ mounted = TRUE
    /\ \E stocks \in StockLists :
           data = Some([matchingStocks |-> <<>>, allStocks |-> stocks,
                        analysis |-> "EGX33", sources |-> <<>>])
    /\ response = Some(Answered(data[1]))
    /\ loading = FALSE
    /\ error = Null
    /\ selectedIndex = "EGX33"
    /\ showOnlyUndervalued = FALSE
    /\ showWatchlistOnly = FALSE
    /\ watchlist \in {<<>>, <<"COMI">>}
    /\ sortConfig = Null
    /\ \E e1m \in BOOLEAN, e1w \in BOOLEAN, abs \in BOOLEAN :
           criteria = [DefaultCriteria EXCEPT !.enabled1m = e1m, !.enabled1w = e1w,
                                              !.useAbsolute1m = abs]
    /\ calls = <<>>
    /\ supabase = TRUE
    /\ remote = {r \in InitialRows : r.symbol \in Range(watchlist)}
    /\ wlLoad = [st |-> "done", savedStocks |-> <<>>]
    /\ toggles = EmptyBag
    /\ lastAlert = Null

NextFilter ==
    \/ ToggleWatchlistOnly
    \/ ToggleUndervalued
    \/ ToggleEnabled6m
    \/ \E v \in Min6mValues : SetMin6m(v)
    \/ \E v \in Max6mValues : SetMax6m(v)

SpecFilter == InitFilter /\ [][NextFilter]_vars

(***************************************************************************)
(* The filter evaluator on records with missing numbers (undefined or      *)
(* null), and with no result held.                                         *)
(***************************************************************************)
PartialStocks == {Stamp(s) : s \in {COMI, HRHO, EFID, JUFO}}

PartialLists == UNION {[1..n -> PartialStocks] : n \in 1..MaxStocks}

InitPartial ==
    /\ mounted = TRUE
    /\ \/ data = Null /\ response = Null /\ error = Some(<<NoStockData>>)
       \/ /\ \E stocks \in PartialLists :
                 data = Some([matchingStocks |-> <<>>, allStocks |-> stocks,
                              analysis |-> "EGX33", sources |-> <<>>])
          /\ response = Some(Answered(data[1]))
          /\ error = Null
    /\ loading = FALSE
    /\ selectedIndex = "EGX33"
    /\ showOnlyUndervalued = FALSE
    /\ showWatchlistOnly = FALSE
    /\ watchlist = <<>>
    /\ sortConfig = Null
    /\ \E e1m \in BOOLEAN, e1w \in BOOLEAN, abs \in BOOLEAN :
           criteria = [DefaultCriteria EXCEPT !.enabled1m = e1m, !.enabled1w = e1w,
                                              !.useAbsolute1m = abs]
    /\ calls = <<>>
    /\ supabase = TRUE
    /\ remote = {}
    /\ wlLoad = [st |-> "done", savedStocks |-> <<>>]
    /\ toggles = EmptyBag
    /\ lastAlert = Null

SpecPartial == InitPartial /\ [][NextFilter]_vars

(***************************************************************************)
(* The table and its sort controls: a held result of up to MaxSorted       *)
(* records, then the column headers and two of the filter controls.        *)
(***************************************************************************)
SortLists == UNION {[1..n -> ViewStocks] : n \in 1..MaxSorted}

InitSort ==
    /\ mounted = TRUE
    /\ \E stocks \in SortLists :
           data = Some([matchingStocks |-> <<>>, allStocks |-> stocks,
                        analysis |-> "EGX33", sources |-> <<>>])
    /\ response = Some(Answered(data[1]))
    /\ loading = FALSE
    /\ error = Null
    /\ selectedIndex = "EGX33"
    /\ showOnlyUndervalued = FALSE
    /\ showWatchlistOnly = FALSE
    /\ watchlist = <<>>
    /\ sortConfig = Null
    /\ \E e1m \in BOOLEAN : criteria = [DefaultCriteria EXCEPT !.enabled1m = e1m]
    /\ calls = <<>>
    /\ supabase = TRUE
    /\ remote = {}
    /\ wlLoad = [st |-> "done", savedStocks |-> <<>>]
    /\ toggles = EmptyBag
    /\ lastAlert = Null

NextSort ==
    \/ \E key \in SortKeys : ClickHeader(key)
    \/ ToggleEnabled6m
    \/ ToggleUndervalued

SpecSort == InitSort /\ [][NextSort]_vars

(***************************************************************************)
(* A whole session: the fetches, the view and sort controls and the        *)
(* watchlist, with the star buttons clicked one toggle at a time and the   *)
(* table sorted by its upside column.                                      *)
(***************************************************************************)
\* a click on a star button while no toggle is awaiting the store
ClickStarIdle(stock) == toggles = EmptyBag /\ ClickStar(stock)

NextSession ==
    \/ Mount
    \/ Refresh
    \/ ProviderResponds
    \/ StoreSelect
    \/ WatchlistLoaded
    \/ \E stock \in StarButtons : ClickStarIdle(stock)
    \/ \E t \in InFlight : StoreWrite(t)
    \/ \E t \in InFlight : ToggleDone(t)
    \/ ToggleEnabled6m
    \/ ClickHeader("upside")

SpecSession == Init /\ [][NextSession]_vars

(***************************************************************************)
(* The watchlist view: the watchlist, one toggle at a time, with the       *)
(* 'watchlist only' and 6-month switches.                                  *)
(***************************************************************************)
NextWatchView ==
    \/ Mount
    \/ ProviderResponds
    \/ StoreSelect
    \/ WatchlistLoaded
    \/ \E stock \in StarButtons : ClickStarIdle(stock)
    \/ \E t \in InFlight : StoreWrite(t)
    \/ \E t \in InFlight : ToggleDone(t)
    \/ ToggleWatchlistOnly
    \/ ToggleEnabled6m

SpecWatchView == Init /\ [][NextWatchView]_vars

(***************************************************************************)
(* Properties.                                                             *)
(***************************************************************************)

\* C1: in every reachable state at most one provider call is outstanding.
C1_SingleFlight == Len(calls) <= 1

\* a call is outstanding and the index was changed meanwhile
C1_Witness == Len(calls) = 1 /\ selectedIndex # calls[1]

\* C2: a fetch request made while loading changes none of data, error,
\* loading and the outstanding call, and nothing is queued: from a loading
\* state the outstanding calls change only by the call in flight resolving,
\* after which none is outstanding and loading is false.
C2_RequestWhileFetchingIsNoOp ==
    [][loading =>
         /\ (selectedIndex' # selectedIndex => UNCHANGED fetchVars)
         /\ (calls' # calls => calls' = <<>> /\ ~loading')]_vars

\* a request for another index was ignored while a result was already held
C2_Witness ==
    /\ loading
    /\ data # Null
    /\ Len(calls) = 1 /\ selectedIndex # calls[1]

\* C3: a fetch that ends in failure leaves data as it was (only error and
\* loading change), and data never goes from present to absent.
C3_StaleOnFailure ==
    [][/\ (data # Null => data' # Null)
       /\ (loading /\ ~loading' /\ error' # Null =>
             UNCHANGED <<data, selectedIndex, viewVars, storeVars>>)]_vars

\* a result is held next to the error of a later, failed fetch
C3_Witness == data # Null /\ error # Null /\ ~loading

\* C4: a held result always has a non-empty allStocks (an empty or absent
\* stock list is a failure and never replaces the held data).
C4_HeldDataNonEmpty == data # Null => Len(data[1].allStocks) > 0

\* an empty answer arrived while a result was held: the error is set and the
\* result is still there
C4_Witness == data # Null /\ error = Some(<<NoStockData>>)

\* the toggle t leaves the in-flight bag in this step
Completes(t) == BagIn(t, toggles) /\ t.st # "sent" /\ toggles' = RemoveFromBag(toggles, t)

\* all toggles that may be in flight
ToggleRecords ==
    {Toggle(s, b, st) : s \in {COMI, SWDY, ABUK}, b \in BOOLEAN,
                        st \in {"sent", "ok", "error"}}

\* C5: when a toggle completes after a failed remote operation the mirror is
\* unchanged and the failure is alerted; when it completes after a successful
\* one, the symbol's membership is the opposite of what it was at issue.
C5_ToggleOutcome ==
    [][\A t \in ToggleRecords : Completes(t) =>
          IF t.st = "error"
          THEN watchlist' = watchlist /\ lastAlert' = Some(FailedToUpdate)
          ELSE (t.symbol \in Range(watchlist')) = ~t.isSaved]_vars

\* a toggle has failed and been alerted, another has succeeded, none is left
C5_Witness ==
    /\ lastAlert = Some(FailedToUpdate)
    /\ toggles = EmptyBag
    /\ wlLoad.st = "sent"
    /\ watchlist # <<>>

C7_MirrorFaithful ==
    (toggles = EmptyBag /\ wlLoad.st = "done") => Range(watchlist) = Symbols(remote)

\* C8: without a configured store the mirror stays empty, no select, insert
\* or delete is ever sent, and a click on a star only raises the
\* "not configured" alert.
C8_Degraded ==
    /\ ~supabase => watchlist = <<>> /\ toggles = EmptyBag /\ wlLoad.st = "none"
    /\ [][~supabase =>
            /\ watchlist' = <<>> /\ toggles' = EmptyBag /\ wlLoad'.st = "none"
            /\ remote' = remote
            /\ (lastAlert' # lastAlert => lastAlert' = Some(NotConfigured))
            /\ (mounted /\ ~loading /\ StarButtons # {} =>
                  lastAlert' = Some(NotConfigured))]_vars

\* a star was clicked without a configured store
C8_Witness == ~supabase /\ lastAlert = Some(NotConfigured) /\ data # Null

\* C9: no two toggles for one symbol are in flight at the same time.
C9_NoOverlappingToggles ==
    \A t \in InFlight :
        /\ CopiesIn(t, toggles) = 1
        /\ \A u \in InFlight : u.symbol = t.symbol => u = t

\* the predicates of the filter as the specification states them
InRange(x, lo, hi) == x # Null /\ lo <= x[1] /\ x[1] <= hi
Passes1m(stock) ==
    IF criteria.useAbsolute1m
    THEN stock.change1m # Null /\ (stock.change1m[1] >= criteria.min1mChange
                                   \/ stock.change1m[1] <= criteria.max1mChange)
    ELSE stock.change1m # Null /\ stock.change1m[1] >= criteria.min1mChange
Undervalued(stock) ==
    /\ stock.fairValue # Null /\ stock.fairValue[1] # 0
    /\ stock.currentPrice # Null /\ stock.fairValue[1] > stock.currentPrice[1]
Passes(stock) ==
    /\ criteria.enabled6m => InRange(stock.change6m, criteria.min6mChange, criteria.max6mChange)
    /\ criteria.enabled1m => Passes1m(stock)
    /\ criteria.enabled1w => InRange(stock.change1w, criteria.min1wChange, criteria.max1wChange)
    /\ showOnlyUndervalued => Undervalued(stock)
    /\ showWatchlistOnly => \E i \in DOMAIN watchlist : watchlist[i] = stock.symbol
NoPredicateEnabled ==
    /\ ~criteria.enabled6m /\ ~criteria.enabled1m /\ ~criteria.enabled1w
    /\ ~showOnlyUndervalued /\ ~showWatchlistOnly

\* the filter's output for the current state (before any sort)
Filtered ==
    FilterStocks(data[1].allStocks, criteria, showOnlyUndervalued,
                 showWatchlistOnly, watchlist)

\* C10: a record is in the filtered output iff it satisfies every enabled
\* predicate, as often as it passes in the input; with every predicate
\* disabled the output equals the input.
C10_FilterIffAllEnabledHold ==
    data # Null =>
        LET all == data[1].allStocks IN
        /\ \A i \in DOMAIN all : (all[i] \in Range(Filtered)) <=> Passes(all[i])
        /\ Len(Filtered) = Cardinality({i \in DOMAIN all : Passes(all[i])})
        /\ NoPredicateEnabled => Filtered = all

\* every kind of predicate is enabled, one record is kept and one is dropped
C10_Witness ==
    /\ criteria.enabled6m /\ criteria.enabled1m /\ criteria.enabled1w
    /\ showOnlyUndervalued /\ showWatchlistOnly
    /\ Len(data[1].allStocks) = 2
    /\ Len(Filtered) = 1

\* the criteria of the state with only the 1-month predicate left in force
MonthOnly == [criteria EXCEPT !.enabled6m = FALSE, !.enabled1w = FALSE]
FilteredByMonth(c) == FilterStocks(data[1].allStocks, c, FALSE, FALSE, <<>>)

\* C11: the enabled 1-month predicate keeps a record with change1m >= min when
\* useAbsolute1m is false, whatever max is, and with change1m >= min or
\* change1m <= max when useAbsolute1m is true; with min 5 and max -5 a change
\* of 7 passes in both modes, -8 passes only in the absolute mode and 2 fails
\* in both.
C11_OneMonthModes ==
    (data # Null /\ criteria.enabled1m) =>
        LET all == data[1].allStocks
            abs == criteria.useAbsolute1m
            lo == criteria.min1mChange
            hi == criteria.max1mChange
        IN  \A i \in DOMAIN all :
              LET x == all[i].change1m
                  kept == all[i] \in Range(FilteredByMonth(MonthOnly))
              IN  /\ x # Null =>
                        (kept <=> IF abs THEN x[1] >= lo \/ x[1] <= hi ELSE x[1] >= lo)
                  /\ ~abs =>
                        \A mx \in {-10, 0, 10} :
                            kept <=> all[i] \in Range(FilteredByMonth(
                                        [MonthOnly EXCEPT !.max1mChange = mx]))
                  /\ (lo = 5 /\ hi = -5) =>
                        /\ x = Some(7) => kept
                        /\ x = Some(-8) => (kept <=> abs)
                        /\ x = Some(2) => ~kept

\* the absolute mode keeps a record that fell by 8 and drops one that rose by 2
C11_Witness ==
    /\ criteria.enabled1m /\ criteria.useAbsolute1m
    /\ Len(data[1].allStocks) = 2
    /\ data[1].allStocks[1].change1m = Some(-8)
    /\ data[1].allStocks[2].change1m = Some(2)
    /\ Len(FilteredByMonth(MonthOnly)) = 1
    /\ FilteredByMonth(MonthOnly)[1].symbol = "COMI"

\* the positions of allStocks whose record satisfies every enabled predicate
PassingPositions == {i \in DOMAIN data[1].allStocks : Passes(data[1].allStocks[i])}

\* out lists the records of all at the positions pos, in increasing position
IsSubsequenceAt(out, all, pos) ==
    \E f \in [DOMAIN out -> DOMAIN all] :
        /\ \A i \in DOMAIN out : \A j \in DOMAIN out : i < j => f[i] < f[j]
        /\ {f[i] : i \in DOMAIN out} = pos
        /\ \A i \in DOMAIN out : out[i] = all[f[i]]

\* C12: the filter's output is the subsequence of allStocks made of the
\* passing records, in the provider's order, and while no sort is set the
\* displayed sequence is exactly that subsequence.
C12_FilterStable ==
    data # Null =>
        /\ IsSubsequenceAt(Filtered, data[1].allStocks, PassingPositions)
        /\ sortConfig = Null => filteredStocks = Filtered

\* no sort is set and the 6-month window was switched off; of three records
\* the first and the third are displayed, in that order, and the second is
\* filtered out
C12_Witness ==
    /\ sortConfig = Null
    /\ ~criteria.enabled6m /\ criteria.enabled1m
    /\ Len(data[1].allStocks) = 3
    /\ PassingPositions = {1, 3}
    /\ data[1].allStocks[1] # data[1].allStocks[3]
    /\ filteredStocks = <<data[1].allStocks[1], data[1].allStocks[3]>>

\* the filter's output with the three windows and the watchlist view off
NoWindows ==
    [criteria EXCEPT !.enabled6m = FALSE, !.enabled1m = FALSE, !.enabled1w = FALSE]
FilteredByValue ==
    FilterStocks(data[1].allStocks, NoWindows, showOnlyUndervalued, FALSE, <<>>)

\* C13: with 'undervalued only' active a record passes that predicate iff its
\* fairValue is present, non-zero and strictly greater than its currentPrice;
\* records with an absent fairValue, a zero fairValue or a fairValue equal to
\* the price are excluded, also from the displayed list.
C13_UndervaluedOnly ==
    (data # Null /\ showOnlyUndervalued) =>
        LET all == data[1].allStocks IN
        /\ \A i \in DOMAIN all :
              LET fv == all[i].fairValue
                  kept == all[i] \in Range(FilteredByValue)
              IN  /\ kept <=> (fv # Null /\ fv[1] # 0 /\ all[i].currentPrice # Null
                                /\ fv[1] > all[i].currentPrice[1])
                  /\ (fv = Null \/ fv = Some(0) \/ fv = all[i].currentPrice) => ~kept
        /\ \A j \in DOMAIN filteredStocks : Undervalued(filteredStocks[j])

\* 'undervalued only' is on; a record priced at its fair value is dropped and
\* a record priced below it is kept
C13_Witness ==
    /\ showOnlyUndervalued
    /\ Len(data[1].allStocks) = 2
    /\ data[1].allStocks[1].fairValue = data[1].allStocks[1].currentPrice
    /\ data[1].allStocks[2].fairValue = Some(60)
    /\ data[1].allStocks[2].currentPrice = Some(50)
    /\ FilteredByValue = <<data[1].allStocks[2]>>

\* C14: a request to sort by K yields (K, asc) iff the sort state is (K, desc)
\* and (K, desc) otherwise: from no sort, from (K, asc) and from any other
\* key.  Sorting by one key repeatedly gives desc, asc, desc.
C14_SortToggle ==
    [][(criteria' = criteria /\ showOnlyUndervalued' = showOnlyUndervalued) =>
          /\ sortConfig' # Null
          /\ sortConfig' # sortConfig
          /\ sortConfig'[1].key \in SortKeys
          /\ sortConfig'[1].direction =
                IF sortConfig = Some([key |-> sortConfig'[1].key, direction |-> "desc"])
                THEN "asc" ELSE "desc"]_vars

\* currentPrice was requested twice in a row
C14_Witness == sortConfig = Some([key |-> "currentPrice", direction |-> "asc"])

\* a record without a usable fair value
Valueless(stock) == stock.fairValue = Null \/ stock.fairValue = Some(0)

\* C15: under sort key 'upside' every displayed record whose fairValue is
\* absent or zero comes after all records with a usable fairValue when the
\* direction is desc and before all of them when it is asc.
C15_ValuelessAtLowEnd ==
    (data # Null /\ sortConfig # Null /\ sortConfig[1].key = "upside") =>
        \A i \in DOMAIN filteredStocks : \A j \in DOMAIN filteredStocks :
            (Valueless(filteredStocks[i]) /\ ~Valueless(filteredStocks[j])) =>
                IF sortConfig[1].direction = "desc" THEN j < i ELSE i < j

\* the provider listed a record without fair value first; sorted by upside
\* descending it is displayed last, behind a record priced above its fair value
C15_Witness ==
    /\ sortConfig = Some([key |-> "upside", direction |-> "desc"])
    /\ Len(filteredStocks) = 3
    /\ data[1].allStocks[1].fairValue = Null
    /\ filteredStocks[3] = data[1].allStocks[1]
    /\ GT(filteredStocks[2].currentPrice, filteredStocks[2].fairValue)
    /\ ~Valueless(filteredStocks[2])

\* stock carries the given numbers
HasNumbers(stock, c6m, c1m, c1w, fv, price) ==
    /\ stock.change6m = Some(c6m) /\ stock.change1m = Some(c1m)
    /\ stock.change1w = Some(c1w)
    /\ stock.fairValue = Some(fv) /\ stock.currentPrice = Some(price)

\* the held result is COMI and ABUK, in either order, under the default
\* criteria: 6m in [10, 150], 1m min 5 max -5 absolute, 1w disabled
ComiAndAbuk ==
    /\ data # Null
    /\ Len(data[1].allStocks) = 2
    /\ \E i \in 1..2 : /\ data[1].allStocks[i].symbol = "COMI"
                        /\ HasNumbers(data[1].allStocks[i], 20, -8, 1, 60, 50)
                        /\ data[1].allStocks[3 - i].symbol = "ABUK"
                        /\ HasNumbers(data[1].allStocks[3 - i], 5, 3, 1, 0, 10)
    /\ criteria.enabled6m /\ criteria.min6mChange = 10 /\ criteria.max6mChange = 150
    /\ criteria.enabled1m /\ criteria.min1mChange = 5 /\ criteria.max1mChange = -5
    /\ criteria.useAbsolute1m /\ ~criteria.enabled1w
    /\ ~showOnlyUndervalued /\ ~showWatchlistOnly

\* C16: for COMI (20, -8, 1, fairValue 60, price 50) and ABUK (5, 3, 1,
\* fairValue 0, price 10) under the default criteria the filtered result is
\* exactly [COMI], and sorted by upside descending COMI is first with an
\* upside of (60 - 50) / 50 = 0.20.
C16_EndToEnd ==
    ComiAndAbuk =>
        /\ Len(Filtered) = 1 /\ Filtered[1].symbol = "COMI"
        /\ sortConfig = Some([key |-> "upside", direction |-> "desc"]) =>
              /\ Len(filteredStocks) = 1 /\ filteredStocks[1].symbol = "COMI"
              /\ LET upside == SortValue(filteredStocks[1], "upside")
                  IN  upside.k = "num" /\ upside.n * 100 = 20 * upside.d

\* COMI and ABUK are held and the upside header was clicked once
C16_Witness ==
    /\ ComiAndAbuk
    /\ sortConfig = Some([key |-> "upside", direction |-> "desc"])
    /\ filteredStocks = <<Stamp(COMI)>>

\* the answer resolved last was stored: screenStocks returned and the stock
\* list was not empty
Stored ==
    /\ response # Null
    /\ screenStocks(response[1]).ok
    /\ Len(screenStocks(response[1]).result.allStocks) > 0

\* the groundingChunks of the answer resolved last, <<>> when it had none
GroundingChunks ==
    IF response[1].groundingChunks = Null THEN <<>> ELSE response[1].groundingChunks[1]

\* a chunk that carries a title or a uri
CarriesData(chunk) ==
    chunk.web # Null /\ (chunk.web[1].title # Null \/ chunk.web[1].uri # Null)

\* C17: a citation with neither a title nor a uri is omitted from sources:
\* sources has one entry for each chunk that carried at least one of the two
\* fields and none for the others.
C17_EmptyCitationsOmitted ==
    Stored =>
        Len(data[1].sources) =
            Cardinality({i \in DOMAIN GroundingChunks : CarriesData(GroundingChunks[i])})

\* C18: every entry of sources has both fields set; entry i has the title of
\* chunk i, or "Market Source" when that is absent, and the uri of chunk i,
\* or "#" when that is absent; an answer without groundingChunks is stored
\* with empty sources and no error.
C18_CitationPlaceholders ==
    Stored =>
        /\ data # Null
        /\ Len(data[1].sources) = Len(GroundingChunks)
        /\ \A i \in DOMAIN data[1].sources :
              LET web == GroundingChunks[i].web
                  entry == data[1].sources[i]
              IN  /\ DOMAIN entry = {"title", "uri"}
                  /\ entry.title # "" /\ entry.uri # ""
                  /\ entry.title = IF web # Null /\ web[1].title \notin {Null, Some("")}
                                   THEN web[1].title[1] ELSE "Market Source"
                  /\ entry.uri = IF web # Null /\ web[1].uri \notin {Null, Some("")}
                                 THEN web[1].uri[1] ELSE "#"
        /\ response[1].groundingChunks = Null =>
              data[1].sources = <<>> /\ error = Null

\* two citations were received, the first with only a title and the second
\* with only a uri; sources lists them in that order with the placeholders
C18_Witness ==
    /\ Stored
    /\ Len(GroundingChunks) = 2
    /\ GroundingChunks[1].web = Some([title |-> Some("EGX"), uri |-> Null])
    /\ GroundingChunks[2].web = Some([title |-> Null, uri |-> Some("https://egx.example")])
    /\ data[1].sources = <<[title |-> "EGX", uri |-> "#"],
                           [title |-> "Market Source", uri |-> "https://egx.example"]>>

\* C19: the fetch state cycles Idle -> Fetching -> {Success, Failure} -> Idle.
\* A step that starts a provider call leads from loading = FALSE to
\* loading = TRUE; the step in which the call resolves leads back to
\* loading = FALSE, with a new result and no error (Success) or with an error
\* and the held result kept (Failure, the empty result included); no other
\* step changes loading, so an unresolved call keeps the state Fetching.
C19_FetchCycle ==
    [][/\ Len(calls') > Len(calls) => (~loading /\ loading')
       /\ Len(calls') < Len(calls) =>
             /\ loading /\ ~loading'
             /\ \/ screenStocks(response'[1]).ok
                    /\ data' = Some(screenStocks(response'[1]).result)
                    /\ error' = Null
                \/ error' # Null /\ data' = data
       /\ calls' = calls => loading' = loading]_vars

\* a fetch ran through Failure back to Idle on an answer with an empty list
C19_Witness ==
    /\ ~loading /\ calls = <<>>
    /\ response # Null /\ response[1].kind = "ok" /\ response[1].stocks = Some(<<>>)
    /\ error = Some(<<NoStockData>>)

\* C20: the held result changes only in a step in which a provider call
\* resolves successfully, and then to the whole result of that answer; a
\* step that changes the sort state, the criteria, the view switches or the
\* watchlist state leaves allStocks, analysis and sources as they are.
C20_ResultReplacedWhole ==
    [][/\ data' # data =>
             /\ Len(calls') < Len(calls)
             /\ screenStocks(response'[1]).ok
             /\ data' = Some(screenStocks(response'[1]).result)
             /\ error' = Null
       /\ (viewVars' # viewVars \/ storeVars' # storeVars) => data' = data]_vars

\* a result with sources is held while the table is sorted, the 6-month
\* window was switched off and a watchlist toggle awaits the store
C20_Witness ==
    /\ data # Null
    /\ Len(data[1].allStocks) = 2 /\ Len(data[1].sources) = 2
    /\ sortConfig = Some([key |-> "upside", direction |-> "asc"])
    /\ ~criteria.enabled6m
    /\ toggles # EmptyBag

\* C21: a toggle leaves data, error and loading unchanged at every step of
\* it: when it is issued (sent to the store, or refused with the 'not
\* configured' alert), when the store executes or rejects it, and when it
\* completes with the mirror updated or with the failure alert.
C21_ToggleLeavesFetchState ==
    [][(toggles' # toggles \/ lastAlert' # lastAlert) =>
          UNCHANGED <<data, error, loading>>]_vars

\* a toggle failed at the store and was alerted while a refresh was in
\* flight over a held result
C21_Witness ==
    /\ lastAlert = Some(FailedToUpdate)
    /\ toggles = EmptyBag
    /\ loading /\ data # Null /\ error = Null

Missing(x) == x = Null \/ x = JsNull

\* stock lacks a number that an enabled predicate needs
LacksNeededNumber(stock) ==
    \/ criteria.enabled6m /\ Missing(stock.change6m)
    \/ criteria.enabled1m /\ Missing(stock.change1m)
    \/ criteria.enabled1w /\ Missing(stock.change1w)
    \/ showOnlyUndervalued /\ (Missing(stock.fairValue) \/ Missing(stock.currentPrice))

\* C23: the filter never fails; a record that lacks a number needed by an
\* enabled predicate fails that predicate and is excluded, and with no data
\* held the filtered output is the empty sequence.
C23_FilterTotal ==
    /\ data = Null => filteredStocks = <<>>
    /\ data # Null =>
          \A i \in DOMAIN data[1].allStocks :
              LacksNeededNumber(data[1].allStocks[i]) =>
                  data[1].allStocks[i] \notin Range(filteredStocks)

\* C24: when no fetch is in flight and the last one succeeded, the held
\* result is the answer to a query for the selected index (the narrative of
\* an answer identifies the index that was queried).
C24_DataForSelectedIndex ==
    (~loading /\ calls = <<>> /\ error = Null /\ data # Null) =>
        data[1].analysis = selectedIndex

\* C25: the mirror never lists a symbol twice.
C25_MirrorHasNoDuplicates ==
    \A i \in DOMAIN watchlist : \A j \in DOMAIN watchlist :
        watchlist[i] = watchlist[j] => i = j

\* C26: the effect of a successfully completed toggle stays in the mirror
\* until a later toggle on its symbol completes.  Until the initial load is
\* delivered the mirror holds exactly the symbols that completed adds put
\* there, so the delivery of the load must keep every symbol of the mirror.
C26_LoadKeepsToggleEffects ==
    [][(wlLoad.st = "ok" /\ wlLoad'.st = "done") =>
          Range(watchlist) \subseteq Range(watchlist')]_vars

\* the mirror without the entries for symbol sym
Others(wl, sym) == SelectSeq(wl, LAMBDA s : s # sym)

\* C27: when a toggle completes after a successful remote operation, its own
\* symbol is added to or removed from the mirror as it stands at that
\* moment, and the entries of every other symbol stay as they are, in any
\* order of the responses of toggles in flight together.
C27_NoLostUpdate ==
    [][\A t \in ToggleRecords : (Completes(t) /\ t.st = "ok") =>
          /\ Others(watchlist', t.symbol) = Others(watchlist, t.symbol)
          /\ (t.symbol \in Range(watchlist')) = ~t.isSaved]_vars

\* an add and a remove on different symbols are in flight together, both
\* executed by the store, and the mirror holds the symbol being removed
C27_Witness ==
    \E t \in InFlight : \E u \in InFlight :
        /\ t.symbol # u.symbol
        /\ t.st = "ok" /\ u.st = "ok"
        /\ t.isSaved /\ ~u.isSaved
        /\ t.symbol \in Range(watchlist)

\* the records that pass the enabled predicates other than 'watchlist only'
\* and whose symbol is in the mirror, in provider order
MirrorView ==
    SelectSeq(FilterStocks(data[1].allStocks, criteria, showOnlyUndervalued, FALSE, <<>>),
              LAMBDA stock : \E i \in DOMAIN watchlist : watchlist[i] = stock.symbol)

KeyValue(stock) == SortValue(stock, sortConfig[1].key)

\* C29: with a sort state present the displayed sequence is a permutation of
\* the filtered records, ordered by key value (non-decreasing for asc,
\* non-increasing for desc), and records with equal key values keep the
\* relative order they have in the filtered input.
C29_SortedStablePermutation ==
    (data # Null /\ sortConfig # Null) =>
        \E p \in [DOMAIN filteredStocks -> DOMAIN Filtered] :
            /\ Len(filteredStocks) = Len(Filtered)
            /\ \A i \in DOMAIN p : \A j \in DOMAIN p : p[i] = p[j] => i = j
            /\ \A i \in DOMAIN p : filteredStocks[i] = Filtered[p[i]]
            /\ \A i \in DOMAIN p : \A j \in DOMAIN p : i < j =>
                  LET a == KeyValue(filteredStocks[i])
                      b == KeyValue(filteredStocks[j])
                  IN  /\ IF sortConfig[1].direction = "asc"
                         THEN ~Less(b, a) ELSE ~Less(a, b)
                      /\ (~Less(a, b) /\ ~Less(b, a)) => p[i] < p[j]

\* sorted by peRatio ascending: two records without a usable peRatio tie at 0
\* and stay in provider order, ahead of the record the provider listed first
C29_Witness ==
    /\ sortConfig = Some([key |-> "peRatio", direction |-> "asc"])
    /\ Len(data[1].allStocks) = 3
    /\ data[1].allStocks[1].symbol = "COMI"
    /\ Len(filteredStocks) = 3
    /\ filteredStocks[1].symbol = "SWDY" /\ filteredStocks[1].peRatio = Null
    /\ filteredStocks[2].symbol = "ABUK" /\ filteredStocks[2].peRatio = Some(0)
    /\ filteredStocks[3].symbol = "COMI"

\* C30: loading is true exactly when a provider call is outstanding.
C30_LoadingIffCallOutstanding == loading <=> (calls # <<>>)

\* a refresh is in flight over a result that an earlier fetch stored
C30_Witness ==
    /\ loading /\ calls = <<selectedIndex>>
    /\ response # Null /\ response[1].kind = "ok"
    /\ data # Null /\ data[1].analysis = selectedIndex

\* C31: while a fetch is in flight the error is absent; when none is in
\* flight the error is present iff the fetch completed last failed, and
\* after a successful fetch data is that fetch's result.
C31_ErrorTracksLastFetch ==
    /\ loading => error = Null
    /\ ~loading => ((error # Null) <=> (response # Null /\ ~Stored))
    /\ (~loading /\ Stored) => data = Some(screenStocks(response[1]).result)

\* a refresh after a failed fetch is in flight and has cleared the error
C31_Witness ==
    /\ loading /\ error = Null
    /\ response # Null /\ response[1].kind = "throw"
    /\ selectedIndex = "EGX33" /\ calls = <<"EGX33">>

\* the number an optional numeric field stands for when absent fields count as 0
ZeroIfAbsent(x) == IF x = Null THEN 0 ELSE x[1]

\* out is all rearranged by the numbers of field key, absent counting as 0,
\* in direction dir, with ties left in the order of all
OrderedWithAbsentAsZero(out, all, key, dir) ==
    \E p \in [DOMAIN out -> DOMAIN all] :
        /\ Len(out) = Len(all)
        /\ \A i \in DOMAIN p : \A j \in DOMAIN p : p[i] = p[j] => i = j
        /\ \A i \in DOMAIN p : out[i] = all[p[i]]
        /\ \A i \in DOMAIN p : \A j \in DOMAIN p : i < j =>
              LET a == ZeroIfAbsent(out[i][key])
                  b == ZeroIfAbsent(out[j][key])
              IN  /\ IF dir = "asc" THEN a <= b ELSE a >= b
                  /\ a = b => p[i] < p[j]

\* C32: under a sort key other than 'upside' a record whose peRatio or
\* fairValue is absent is ordered as if the field were 0: the sort by either
\* field orders the filtered records by the field's number with absent read
\* as 0, ties with records whose field is 0 included, and the displayed
\* sequence is that order when the field is the sort key.
C32_AbsentSortsAsZero ==
    data # Null =>
        \A key \in {"peRatio", "fairValue"} : \A dir \in {"asc", "desc"} :
            LET cfg == [key |-> key, direction |-> dir]
                out == SortBy(Filtered, cfg)
            IN  /\ OrderedWithAbsentAsZero(out, Filtered, key, dir)
                /\ sortConfig = Some(cfg) => filteredStocks = out

\* sorted by peRatio descending: the record without peRatio stays ahead of
\* the record with peRatio 0 that the provider listed after it, both behind
\* the record with peRatio 7
C32_Witness ==
    /\ sortConfig = Some([key |-> "peRatio", direction |-> "desc"])
    /\ Len(data[1].allStocks) = 3
    /\ data[1].allStocks[1].peRatio = Null
    /\ data[1].allStocks[2].peRatio = Some(0)
    /\ data[1].allStocks[3].peRatio = Some(7)
    /\ filteredStocks = <<data[1].allStocks[3], data[1].allStocks[1], data[1].allStocks[2]>>

\* C33: once a sort state is present no step makes it absent; a step of a
\* fetch (start, success or failure), of a criteria control or of a toggle
\* leaves the sort state as it is, and whenever a result is held under a
\* sort state, a newly stored one included, the table shows the filtered
\* records in the order of that state.
C33_SortStatePersists ==
    /\ [][/\ sortConfig # Null => sortConfig' # Null
          /\ (fetchVars' # fetchVars \/ storeVars' # storeVars \/ criteria' # criteria) =>
                sortConfig' = sortConfig]_vars
    /\ []((data # Null /\ sortConfig # Null) =>
             filteredStocks = SortBy(Filtered, sortConfig[1]))

\* the table was sorted by upside ascending; a later refresh failed and the
\* sort state is still there
C33_Witness ==
    /\ sortConfig = Some([key |-> "upside", direction |-> "asc"])
    /\ ~loading /\ error # Null /\ data # Null

====
